---- MODULE Spec2Model ----
(***************************************************************************)
(* Model of metrics-exporter-prometheus/src/recorder.rs: the Prometheus    *)
(* recorder (PrometheusRecorder), its shared state (Inner) and the scrape  *)
(* path (Inner::get_recent_metrics, Inner::render).                        *)
(*                                                                         *)
(* Strings are sequences of one-character strings, so that sanitising and  *)
(* escaping are computed character by character as the code does.          *)
(* The registry, the handles, the recency filter and the distributions are *)
(* other crates' code; they are modelled from the specification.           *)
(***************************************************************************)
EXTENDS Integers, Sequences, FiniteSets, TLC

(***************************************************************************)
(* Bounds of the model.                                                    *)
(***************************************************************************)
\* Recorder calls begun in one behaviour.
MaxCalls == 3
\* render() calls begun in one behaviour.
MaxRenders == 2
\* Times the recency filter's idle timeout fires in one behaviour.
MaxExpire == 1
\* Recorder calls begun in one behaviour in which both locks are contended.
MaxLockCalls == 2
\* Longest label value of the keys whose label values are enumerated.
MaxLabelLen == 2
\* The counter cell is a u64; the model keeps the wraparound with a narrow
\* cell: counter values are taken modulo CounterModulus.
CounterModulus == 4

(***************************************************************************)
(* Small helpers on functions and sequences.                               *)
(***************************************************************************)
Put(f, k, v) == [x \in (DOMAIN f) \cup {k} |-> IF x = k THEN v ELSE f[x]]

EmptyMap == [x \in {} |-> 0]

RECURSIVE SumSeq(_)
SumSeq(s) == IF s = <<>> THEN 0 ELSE Head(s) + SumSeq(Tail(s))

RECURSIVE CountLe(_, _)
CountLe(s, b) ==
    IF s = <<>> THEN 0
    ELSE (IF Head(s) <= b THEN 1 ELSE 0) + CountLe(Tail(s), b)

(***************************************************************************)
(* Metric kinds and keys (metrics_util::MetricKind, CompositeKey).         *)
(***************************************************************************)
COUNTER == "counter"
GAUGE == "gauge"
HISTOGRAM == "histogram"

MkKey(kind, name, labels) == [kind |-> kind, name |-> name, labels |-> labels]

\* Metric names of the model, as character sequences.
NameDotted == <<"a", ".", "b">>
NamePlain == <<"a", "_", "b">>
NameGauge == <<"g">>
NameHist == <<"h", "-", "m">>
NameBare == <<"n">>
NameSummary == <<"s">>

\* Label sequences of the model: (key, value) pairs.
NoLabels == <<>>
LabelsGet == << << <<"m">>, <<"G">> >> >>
LabelsQuote == << << <<"m">>, <<"\"", "\\", "\n">> >> >>

(***************************************************************************)
(* key_to_parts: the rendered name and the rendered labels of a key.       *)
(***************************************************************************)
\* The closure `sanitize` of key_to_parts.
sanitize(c) == c = "." \/ c = "=" \/ c = "{" \/ c = "}" \/ c = "+" \/ c = "-"

\* str::replace(pattern, to) for a one-character pattern given as a predicate
\* or a character: every matching character is replaced by the sequence `to`.
RECURSIVE ReplaceSanitized(_)
ReplaceSanitized(s) ==
    IF s = <<>> THEN <<>>
    ELSE (IF sanitize(Head(s)) THEN <<"_">> ELSE <<Head(s)>>)
         \o ReplaceSanitized(Tail(s))

RECURSIVE ReplaceChar(_, _, _)
ReplaceChar(s, c, to) ==
    IF s = <<>> THEN <<>>
    ELSE (IF Head(s) = c THEN to ELSE <<Head(s)>>) \o ReplaceChar(Tail(s), c, to)

\* An escaping that leaves backslashes as they are.
EscapeValue_quotes(v) ==
    ReplaceChar(ReplaceChar(v, "\"", <<"\\", "\"">>), "\n", <<"\\", "n">>)

\* v.replace("\\", "\\\\").replace("\"", "\\\"").replace("\n", "\\n")
EscapeValue(v) ==
    ReplaceChar(ReplaceChar(ReplaceChar(v, "\\", <<"\\", "\\">>),
                            "\"", <<"\\", "\"">>),
                "\n", <<"\\", "n">>)

\* format!("{}=\"{}\"", k, escaped v)
FormatLabel(label) == label[1] \o <<"=", "\"">> \o EscapeValue(label[2]) \o <<"\"">>

key_to_parts(key) ==
    [name |-> ReplaceSanitized(key.name),
     labels |-> [i \in 1..Len(key.labels) |-> FormatLabel(key.labels[i])]]

(***************************************************************************)
(* Handles (metrics_util::Handle): a counter cell, a gauge cell or a       *)
(* buffer of raw histogram samples.                                        *)
(***************************************************************************)
HandleCounter == [n |-> 0, samples |-> <<>>]
HandleGauge == [n |-> 0, samples |-> <<>>]
HandleHistogram == [n |-> 0, samples |-> <<>>]

NewHandle(kind) ==
    IF kind = COUNTER THEN HandleCounter
    ELSE IF kind = GAUGE THEN HandleGauge
    ELSE HandleHistogram

\* Handle::increment_counter: an atomic add on the u64 cell.
HandleIncrementCounter(h, value) ==
    [h EXCEPT !.n = (h.n + value) % CounterModulus]

\* Handle::update_gauge: an atomic store.
HandleUpdateGauge(h, value) == [h EXCEPT !.n = value]

\* Handle::record_histogram: appends the sample to the buffer.
HandleRecordHistogram(h, value) == [h EXCEPT !.samples = Append(h.samples, value)]

(***************************************************************************)
(* Distributions (crate::distribution).                                    *)
(***************************************************************************)
\* Bucket boundaries configured for histogram names.
Buckets == <<10, 50, 100>>

\* Quantiles configured for summary names: the text of quantile.value() and
\* the quantile in percent.
Quantiles == <<[value |-> "0.5", percent |-> 50], [value |-> "0.99", percent |-> 99]>>

\* The configurations the resolver can hold for a name.
HistogramConfig == [kind |-> "histogram", bounds |-> Buckets]
SummaryConfig == [kind |-> "summary", quantiles |-> Quantiles]

\* Distribution::Histogram(histogram).
NewHistogram(bounds) ==
    [kind |-> "histogram", bounds |-> bounds,
     counts |-> [i \in 1..Len(bounds) |-> 0], sum |-> 0, count |-> 0]

\* Distribution::Summary(summary, quantiles, sum): the sketch is kept as the
\* samples fed to it.
NewSummary(quantiles) ==
    [kind |-> "summary", samples |-> <<>>, quantiles |-> quantiles, sum |-> 0]

\* Histogram::record_many: every boundary >= the sample counts it; the sum
\* and the count grow.
RecordHistogramSamples(d, samples) ==
    [d EXCEPT !.counts = [i \in 1..Len(d.bounds) |->
                              d.counts[i] + CountLe(samples, d.bounds[i])],
              !.sum = d.sum + SumSeq(samples),
              !.count = d.count + Len(samples)]

\* The Summary arm: every sample is fed into the sketch and added to the sum.
RecordSummarySamples(d, samples) ==
    [d EXCEPT !.samples = d.samples \o samples,
              !.sum = d.sum + SumSeq(samples)]

\* Distribution::record_samples.
RecordSamples(d, samples) ==
    IF d.kind = "summary"
    THEN RecordSummarySamples(d, samples)
    ELSE RecordHistogramSamples(d, samples)

\* Summary::value_at_quantile: the smallest sample that at least the given
\* percentage of the samples does not exceed; 0 for an empty sketch.
value_at_quantile(samples, percent) ==
    IF samples = <<>> THEN 0
    ELSE LET reached == {samples[i] : i \in
                            {j \in 1..Len(samples) :
                                CountLe(samples, samples[j]) * 100
                                    >= percent * Len(samples)}}
         IN  CHOOSE v \in reached : \A w \in reached : v <= w

(***************************************************************************)
(* The state: the fields of Inner, the threads calling the recorder and    *)
(* the threads calling render(), and the history the claims speak about.   *)
(***************************************************************************)
VARIABLES
    universe,       \* the Metric Keys the application uses (fixed by Init)
    builder,        \* Inner.distribution_builder: rendered name -> configuration
    registry,       \* Inner.registry: key -> [gen, h]
    recency,        \* Inner.recency: key -> the generation it became idle at
    distributions,  \* Inner.distributions: name -> labels -> Distribution
    distLock,       \* the RwLock of Inner.distributions
    descriptions,   \* Inner.descriptions: name -> description
    descLock,       \* the RwLock of Inner.descriptions
    wr,             \* the threads that call the Recorder operations
    sc,             \* the threads that call render()
    hist,           \* history: what the calls made so far asked for
    prev,           \* history: the output of the last undisturbed render()
    budget          \* the threads in use; calls, renders and idle timeouts left

vars == <<universe, builder, registry, recency, distributions, distLock,
          descriptions, descLock, wr, sc, hist, prev, budget>>

\* Thread ids; 0 is no thread.
Writers == {1, 2}
Scrapers == {11, 12}

\* Inputs of the Recorder operations.
Deltas == {1, CounterModulus - 1}
GaugeValues == {3, 5}
Samples == {5, 20, 999}
\* Option<&'static str>: <<>> is None, <<d>> is Some(d).
DescriptionOptions == {<<>>, <<"A">>, <<"B">>}

NoKey == MkKey("none", <<>>, <<>>)

(***************************************************************************)
(* parking_lot::RwLock: one writer or any number of readers.               *)
(***************************************************************************)
Unlocked == [writer |-> 0, readers |-> {}]

CanWrite(lock) == lock.writer = 0 /\ lock.readers = {}
CanRead(lock) == lock.writer = 0

\* A write guard that is kept when dropped.
ReleaseWrite_kept(lock) == lock

\* The write guard is dropped.
ReleaseWrite(lock) == [lock EXCEPT !.writer = 0]

(***************************************************************************)
(* Recency::should_store: the series is fresh unless its idle timeout      *)
(* fired at the generation the scrape saw.                                 *)
(***************************************************************************)
should_store(kind, key, gen) == ~(key \in DOMAIN recency /\ recency[key] = gen)

(***************************************************************************)
(* DistributionBuilder::get_distribution: <<>> is None, <<d>> is Some(d).  *)
(***************************************************************************)
get_distribution(name) ==
    IF name \notin DOMAIN builder THEN <<>>
    ELSE IF builder[name].kind = "summary"
         THEN <<NewSummary(builder[name].quantiles)>>
         ELSE <<NewHistogram(builder[name].bounds)>>

(***************************************************************************)
(* History kept for the claims.                                            *)
(***************************************************************************)
NoHistory == [incSum |-> 0, gaugeLast |-> 0, gaugeRaced |-> FALSE,
              gaugeSet |-> {}, recorded |-> <<>>, created |-> 0,
              descs |-> {}, seen |-> <<>>]

\* No undisturbed render() to compare the next one with.
NoOutput == [valid |-> FALSE, out |-> {}]

\* A Recorder call begins: every render() in progress or finished is no
\* longer undisturbed.
Disturb(s) == [s EXCEPT !.quiet = FALSE, !.base = NoOutput]

WritersIdle == \A t \in Writers : wr[t].pc = "idle"

IdleWriter == [pc |-> "idle", op |-> "none", key |-> NoKey, value |-> 0,
               desc |-> <<>>]

IdleScraper == [pc |-> "idle", metrics |-> EmptyMap, pending |-> {},
                cur |-> NoKey, counters |-> EmptyMap, gauges |-> EmptyMap,
                snap |-> EmptyMap, out |-> {}, quiet |-> FALSE,
                fresh |-> {}, stale |-> {}, dists0 |-> EmptyMap,
                base |-> NoOutput]

(***************************************************************************)
(* The Recorder operations.  A call runs on the first free thread (threads *)
(* keep nothing between calls), so Writers bounds the calls in flight.     *)
(***************************************************************************)
FreeWriter(t) ==
    /\ t \in budget.writers
    /\ wr[t].pc = "idle"
    /\ \A u \in Writers : u < t => wr[u].pc # "idle"

\* The history of the series of key k, before any call on it.
HistoryOf(k) == IF k \in DOMAIN hist THEN hist[k] ELSE NoHistory

\* A call on key k begins on thread t.
BeginCall(t, op, k, value, desc, pc) ==
    /\ FreeWriter(t)
    /\ budget.calls > 0
    /\ k \in universe
    /\ budget' = [budget EXCEPT !.calls = @ - 1]
    /\ wr' = [wr EXCEPT ![t] = [pc |-> pc, op |-> op, key |-> k,
                                 value |-> value, desc |-> desc]]
    /\ sc' = [s \in Scrapers |-> Disturb(sc[s])]
    /\ prev' = NoOutput

\* The history after a register call on key k with this description.
Described(k, desc) ==
    Put(hist, k, [HistoryOf(k) EXCEPT !.descs = @ \cup {desc[i] : i \in 1..Len(desc)}])

\* register_*: add_description_if_missing comes first and takes the
\* descriptions lock only when a description is given.
RegisterPc(desc) == IF desc = <<>> THEN "op" ELSE "describe"

register_counter(t, k, desc) ==
    /\ k.kind = COUNTER
    /\ BeginCall(t, "register", k, 0, desc, RegisterPc(desc))
    /\ hist' = Described(k, desc)
    /\ UNCHANGED <<universe, builder, registry, recency, distributions,
                   distLock, descriptions, descLock>>

register_gauge(t, k, desc) ==
    /\ k.kind = GAUGE
    /\ BeginCall(t, "register", k, 0, desc, RegisterPc(desc))
    /\ hist' = Described(k, desc)
    /\ UNCHANGED <<universe, builder, registry, recency, distributions,
                   distLock, descriptions, descLock>>

register_histogram(t, k, desc) ==
    /\ k.kind = HISTOGRAM
    /\ BeginCall(t, "register", k, 0, desc, RegisterPc(desc))
    /\ hist' = Described(k, desc)
    /\ UNCHANGED <<universe, builder, registry, recency, distributions,
                   distLock, descriptions, descLock>>

increment_counter(t, k, value) ==
    /\ k.kind = COUNTER
    /\ BeginCall(t, "increment", k, value, <<>>, "op")
    /\ hist' = Put(hist, k, [HistoryOf(k) EXCEPT !.incSum = @ + value])
    /\ UNCHANGED <<universe, builder, registry, recency, distributions,
                   distLock, descriptions, descLock>>

\* The history notes whether this update overlaps another update of the key.
update_gauge(t, k, value) ==
    /\ k.kind = GAUGE
    /\ BeginCall(t, "update", k, value, <<>>, "op")
    /\ hist' = Put(hist, k,
                   [HistoryOf(k) EXCEPT
                        !.gaugeLast = value,
                        !.gaugeSet = @ \cup {value},
                        !.gaugeRaced = \E u \in Writers :
                            wr[u].op = "update" /\ wr[u].key = k])
    /\ UNCHANGED <<universe, builder, registry, recency, distributions,
                   distLock, descriptions, descLock>>

record_histogram(t, k, value) ==
    /\ k.kind = HISTOGRAM
    /\ BeginCall(t, "record", k, value, <<>>, "op")
    /\ hist' = Put(hist, k,
                   [HistoryOf(k) EXCEPT !.recorded = Append(@, value)])
    /\ UNCHANGED <<universe, builder, registry, recency, distributions,
                   distLock, descriptions, descLock>>

(***************************************************************************)
(* add_description_if_missing.                                             *)
(***************************************************************************)
\* self.inner.descriptions.write()
AcquireDescriptionsWrite(t) ==
    /\ wr[t].pc = "describe"
    /\ CanWrite(descLock)
    /\ descLock' = [descLock EXCEPT !.writer = t]
    /\ wr' = [wr EXCEPT ![t].pc = "describing"]
    /\ UNCHANGED <<universe, builder, registry, recency, distributions,
                   distLock, descriptions, sc, hist, prev, budget>>

\* A table in which the last description written wins.
DescriptionsAfter_overwrite(table, name, description) == Put(table, name, description)

\* The table after add_description_if_missing(key, Some(description)).
DescriptionsAfter(table, name, description) ==
    IF name \notin DOMAIN table THEN Put(table, name, description) ELSE table

\* contains_key / insert under the write lock, which is then dropped.
add_description_if_missing(t) ==
    /\ wr[t].pc = "describing"
    /\ descriptions' = DescriptionsAfter(descriptions, wr[t].key.name, wr[t].desc[1])
    /\ descLock' = ReleaseWrite(descLock)
    /\ wr' = [wr EXCEPT ![t].pc = "op"]
    /\ UNCHANGED <<universe, builder, registry, recency, distributions,
                   distLock, sc, hist, prev, budget>>

(***************************************************************************)
(* Registry::op(key, op, init): get or create the handle, run the closure  *)
(* on it, then bump the generation.                                        *)
(***************************************************************************)
\* A get-or-create that is an insert: the handle is made anew on every call.
GetOrCreate_insert(reg, k) == Put(reg, k, [gen |-> 0, h |-> NewHandle(k.kind)])

\* The registry after the get-or-create of key k.
GetOrCreate(reg, k) ==
    IF k \in DOMAIN reg THEN reg ELSE Put(reg, k, [gen |-> 0, h |-> NewHandle(k.kind)])

RegistryGetOrCreate(t) ==
    /\ wr[t].pc = "op"
    /\ registry' = GetOrCreate(registry, wr[t].key)
    /\ hist' = IF wr[t].key \in DOMAIN registry /\ registry' = registry THEN hist
               ELSE Put(hist, wr[t].key,
                        [HistoryOf(wr[t].key) EXCEPT !.created = @ + 1])
    /\ wr' = [wr EXCEPT ![t].pc = "apply"]
    /\ UNCHANGED <<universe, builder, recency, distributions, distLock,
                   descriptions, descLock, sc, prev, budget>>

\* The closures the Recorder operations hand to Registry::op.
\* A register closure that sets the handle back to its initial value.
register_op_reset(h) == [n |-> 0, samples |-> <<>>]

\* |_| {}
register_op(h) == h

\* A closure that stores the delta where it should add it.
increment_counter_op_store(h, value) == HandleUpdateGauge(h, value)
increment_counter_op(h, value) == HandleIncrementCounter(h, value)

\* A closure that adds the value where it should replace it.
update_gauge_op_add(h, value) == [h EXCEPT !.n = @ + value]
update_gauge_op(h, value) == HandleUpdateGauge(h, value)

record_histogram_op(h, value) == HandleRecordHistogram(h, value)

ApplyOp(op, h, value) ==
    IF op = "increment" THEN increment_counter_op(h, value)
    ELSE IF op = "update" THEN update_gauge_op(h, value)
    ELSE IF op = "record" THEN record_histogram_op(h, value)
    ELSE register_op(h)

RegistryApply(t) ==
    /\ wr[t].pc = "apply"
    /\ registry' = [registry EXCEPT
                       ![wr[t].key] = [gen |-> @.gen + 1,
                                       h |-> ApplyOp(wr[t].op, @.h, wr[t].value)]]
    /\ wr' = [wr EXCEPT ![t] = IdleWriter]
    /\ UNCHANGED <<universe, builder, recency, distributions, distLock,
                   descriptions, descLock, sc, hist, prev, budget>>

(***************************************************************************)
(* The recency filter's clock: the idle timeout of some series fires at    *)
(* the generation each has now; the next update of a series makes it fresh *)
(* again.                                                                  *)
(***************************************************************************)
IdleTimeout(keys) ==
    /\ budget.expire > 0
    /\ keys # {}
    /\ \A k \in keys : k \in DOMAIN registry /\ should_store(k.kind, k, registry[k].gen)
    /\ recency' = [k \in (DOMAIN recency) \cup keys |->
                       IF k \in keys THEN registry[k].gen ELSE recency[k]]
    /\ budget' = [budget EXCEPT !.expire = @ - 1]
    /\ sc' = [s \in Scrapers |-> Disturb(sc[s])]
    /\ prev' = NoOutput
    /\ UNCHANGED <<universe, builder, registry, distributions, distLock,
                   descriptions, descLock, wr, hist>>

(***************************************************************************)
(* The text renderer.  A line is kept as the arguments of the write_*_line *)
(* call that writes it.  The maps are drained in an unspecified order, so  *)
(* the output is a set of blocks; a block is its head lines, in order,     *)
(* followed by its groups of lines (one per label set), in any order.      *)
(***************************************************************************)
write_help_line(name, desc) ==
    [line |-> "HELP", name |-> name, suffix |-> "", labels |-> <<>>,
     extra |-> <<>>, text |-> desc, value |-> 0]

write_type_line(name, metric_type) ==
    [line |-> "TYPE", name |-> name, suffix |-> "", labels |-> <<>>,
     extra |-> <<>>, text |-> metric_type, value |-> 0]

\* suffix "" is None; additional_label <<>> is None.
write_metric_line(name, suffix, labels, additional_label, value) ==
    [line |-> "METRIC", name |-> name, suffix |-> suffix, labels |-> labels,
     extra |-> additional_label, text |-> "", value |-> value]

\* if let Some(desc) = descriptions.get(name) { write_help_line(..) }
HelpLines(table, name) ==
    IF name \in DOMAIN table THEN <<write_help_line(name, table[name])>> ELSE <<>>

CounterBlock(table, name, by_labels) ==
    [class |-> COUNTER,
     head |-> HelpLines(table, name) \o <<write_type_line(name, "counter")>>,
     groups |-> {<<write_metric_line(name, "", labels, <<>>, by_labels[labels])>> :
                    labels \in DOMAIN by_labels}]

GaugeBlock(table, name, by_labels) ==
    [class |-> GAUGE,
     head |-> HelpLines(table, name) \o <<write_type_line(name, "gauge")>>,
     groups |-> {<<write_metric_line(name, "", labels, <<>>, by_labels[labels])>> :
                    labels \in DOMAIN by_labels}]

\* Histogram lines whose count line carries the sum and whose sum line
\* carries the count.
HistogramLines_swapped(name, labels, histogram) ==
    <<write_type_line(name, "histogram")>>
    \o [i \in 1..Len(histogram.bounds) |->
           write_metric_line(name, "bucket", labels,
                             <<"le", ToString(histogram.bounds[i])>>,
                             histogram.counts[i])]
    \o <<write_metric_line(name, "bucket", labels, <<"le", "+Inf">>, histogram.count),
         write_metric_line(name, "sum", labels, <<>>, histogram.count),
         write_metric_line(name, "count", labels, <<>>, histogram.sum)>>

\* The lines of one Distribution::Histogram: its TYPE line, one bucket line
\* per boundary, the +Inf bucket, the sum and the count.
HistogramLines(name, labels, histogram) ==
    <<write_type_line(name, "histogram")>>
    \o [i \in 1..Len(histogram.bounds) |->
           write_metric_line(name, "bucket", labels,
                             <<"le", ToString(histogram.bounds[i])>>,
                             histogram.counts[i])]
    \o <<write_metric_line(name, "bucket", labels, <<"le", "+Inf">>, histogram.count),
         write_metric_line(name, "sum", labels, <<>>, histogram.sum),
         write_metric_line(name, "count", labels, <<>>, histogram.count)>>

\* The lines of one Distribution::Summary: its TYPE line, one line per
\* configured quantile in the configured order, the sum and the count.
SummaryLines(name, labels, summary) ==
    <<write_type_line(name, "summary")>>
    \o [i \in 1..Len(summary.quantiles) |->
           write_metric_line(name, "", labels,
                             <<"quantile", summary.quantiles[i].value>>,
                             value_at_quantile(summary.samples,
                                               summary.quantiles[i].percent))]
    \o <<write_metric_line(name, "sum", labels, <<>>, summary.sum),
         write_metric_line(name, "count", labels, <<>>, Len(summary.samples))>>

\* match distribution { Summary(..) => .., Histogram(..) => .. }, then the
\* sum and the count lines.
DistributionLines(name, labels, distribution) ==
    IF distribution.kind = "summary"
    THEN SummaryLines(name, labels, distribution)
    ELSE HistogramLines(name, labels, distribution)

DistributionBlock(table, name, by_labels) ==
    [class |-> "distribution",
     head |-> HelpLines(table, name),
     groups |-> {DistributionLines(name, labels, by_labels[labels]) :
                    labels \in DOMAIN by_labels}]

\* Inner::render after get_recent_metrics: the output for a Snapshot.
RenderSnapshot(table, counters, gauges, dists) ==
    {CounterBlock(table, name, counters[name]) : name \in DOMAIN counters}
    \cup {GaugeBlock(table, name, gauges[name]) : name \in DOMAIN gauges}
    \cup {DistributionBlock(table, name, dists[name]) : name \in DOMAIN dists}

(***************************************************************************)
(* Inner::get_recent_metrics and Inner::render, step by step.  A render()  *)
(* call runs on the first free thread.                                     *)
(***************************************************************************)
Resting(pc) == pc \in {"idle", "done", "panicked"}

FreeScraper(s) ==
    /\ s \in budget.scrapers
    /\ Resting(sc[s].pc)
    /\ \A u \in Scrapers : u < s => ~Resting(sc[u].pc)

\* counters.entry(name).or_insert_with(HashMap::new).entry(labels).or_insert(0),
\* then *entry = value.
InsertEntry(map, name, labels, value) ==
    Put(map, name,
        Put(IF name \in DOMAIN map THEN map[name] ELSE EmptyMap, labels, value))

\* A scrape that never skips a series.
SkipStale_never(kind, key, gen) == FALSE

\* if !self.recency.should_store(kind, &key, gen, self.registry()) { continue; }
SkipStale(kind, key, gen) == ~should_store(kind, key, gen)

\* The scrape is done with key k; the history keeps the recency filter's
\* answer for it.
Answered(scraper, k) ==
    [scraper EXCEPT
        !.pending = @ \ {k},
        !.fresh = IF should_store(k.kind, k, scraper.metrics[k]) THEN @ \cup {k} ELSE @,
        !.stale = IF should_store(k.kind, k, scraper.metrics[k]) THEN @ ELSE @ \cup {k}]

\* render() is called: let metrics = self.registry.get_handles().
render(s) ==
    /\ FreeScraper(s)
    /\ budget.renders > 0
    /\ budget' = [budget EXCEPT !.renders = @ - 1]
    /\ sc' = [sc EXCEPT ![s] =
                 [IdleScraper EXCEPT
                     !.pc = "loop",
                     !.metrics = [k \in DOMAIN registry |-> registry[k].gen],
                     !.pending = DOMAIN registry,
                     !.quiet = WritersIdle,
                     !.dists0 = distributions,
                     !.base = prev]]
    /\ UNCHANGED <<universe, builder, registry, recency, distributions,
                   distLock, descriptions, descLock, wr, hist, prev>>

\* The loop body for a counter: read the cell, ask the recency filter, and
\* store the value under the rendered name and labels.
VisitCounter(s, k) ==
    /\ sc[s].pc = "loop"
    /\ k \in sc[s].pending
    /\ k.kind = COUNTER
    /\ LET value == registry[k].h.n
           parts == key_to_parts(k)
       IN  IF SkipStale(k.kind, k, sc[s].metrics[k])
           THEN sc' = [sc EXCEPT ![s] = Answered(@, k)]
           ELSE sc' = [sc EXCEPT ![s] = [Answered(@, k) EXCEPT !.counters =
                                     InsertEntry(@, parts.name, parts.labels, value)]]
    /\ UNCHANGED <<universe, builder, registry, recency, distributions,
                   distLock, descriptions, descLock, wr, hist, prev, budget>>

\* The loop body for a gauge.
VisitGauge(s, k) ==
    /\ sc[s].pc = "loop"
    /\ k \in sc[s].pending
    /\ k.kind = GAUGE
    /\ LET value == registry[k].h.n
           parts == key_to_parts(k)
       IN  IF SkipStale(k.kind, k, sc[s].metrics[k])
           THEN sc' = [sc EXCEPT ![s] = Answered(@, k)]
           ELSE sc' = [sc EXCEPT ![s] = [Answered(@, k) EXCEPT !.gauges =
                                     InsertEntry(@, parts.name, parts.labels, value)]]
    /\ UNCHANGED <<universe, builder, registry, recency, distributions,
                   distLock, descriptions, descLock, wr, hist, prev, budget>>

\* The loop body for a histogram, up to the recency filter's answer: a stale
\* series is skipped, a fresh one goes on to self.distributions.write().
VisitHistogram(s, k) ==
    /\ sc[s].pc = "loop"
    /\ k \in sc[s].pending
    /\ k.kind = HISTOGRAM
    /\ IF SkipStale(k.kind, k, sc[s].metrics[k])
       THEN sc' = [sc EXCEPT ![s] = Answered(@, k)]
       ELSE sc' = [sc EXCEPT ![s] = [Answered(@, k) EXCEPT !.cur = k,
                                                        !.pc = "locking"]]
    /\ UNCHANGED <<universe, builder, registry, recency, distributions,
                   distLock, descriptions, descLock, wr, hist, prev, budget>>

\* let mut wg = self.distributions.write(): the scrape waits until the store
\* has no reader and no writer, and takes it.
AcquireDistributionsWrite(s) ==
    /\ sc[s].pc = "locking"
    /\ CanWrite(distLock)
    /\ distLock' = [distLock EXCEPT !.writer = s]
    /\ sc' = [sc EXCEPT ![s].pc = "drain"]
    /\ UNCHANGED <<universe, builder, registry, recency, distributions,
                   descriptions, descLock, wr, hist, prev, budget>>

\* Handle::read_histogram_with_clear: the buffer is taken and emptied in one
\* step; the taken batch goes to the consumer.
ReadHistogramWithClear(h) == [batch |-> h.samples, h |-> [h EXCEPT !.samples = <<>>]]

\* An entry that is made anew on every scrape.
DistributionEntry_anew(inner, labels, made) == made[1]

\* .entry(labels).or_insert_with(|| get_distribution(name).expect(..)), when
\* it does not panic: the entry of the labels, made from the builder when
\* missing.
DistributionEntry(inner, labels, made) ==
    IF labels \in DOMAIN inner THEN inner[labels] ELSE made[1]

\* A drain that reads the buffer and leaves it as it is.
DrainInto_keep(entry, h) ==
    [entry |-> RecordSamples(entry, h.samples), h |-> h]

\* handle.read_histogram_with_clear(|samples| entry.record_samples(samples))
DrainInto(entry, h) ==
    [entry |-> RecordSamples(entry, ReadHistogramWithClear(h).batch),
     h |-> ReadHistogramWithClear(h).h]

\* A failed expect that is passed over: the scrape goes on to the next handle.
ExpectFailed_continue == "loop"

\* .expect("failed to create distribution") on None: the thread panics and
\* render() does not return.
ExpectFailed == "panicked"

\* The loop body for a fresh histogram under the write lock: the entry of
\* the rendered name (created empty when missing), the entry of the labels
\* (created from the builder, a panic when the builder has no configuration),
\* then the drained samples are recorded.  The guard is dropped at the end
\* of the block, and by the unwinding of a panic.
DrainHistogram(s) ==
    /\ sc[s].pc = "drain"
    /\ LET k == sc[s].cur
           parts == key_to_parts(k)
           inner == IF parts.name \in DOMAIN distributions
                    THEN distributions[parts.name] ELSE EmptyMap
           made == get_distribution(parts.name)
           drained == DrainInto(DistributionEntry(inner, parts.labels, made),
                                registry[k].h)
       IN  IF parts.labels \notin DOMAIN inner /\ made = <<>>
           THEN /\ distributions' = Put(distributions, parts.name, inner)
                /\ sc' = [sc EXCEPT ![s].pc = ExpectFailed, ![s].cur = NoKey]
                /\ UNCHANGED registry
           ELSE /\ distributions' =
                       Put(distributions, parts.name,
                           Put(inner, parts.labels, drained.entry))
                /\ registry' = [registry EXCEPT ![k].h = drained.h]
                /\ sc' = [sc EXCEPT ![s].pc = "loop", ![s].cur = NoKey]
    /\ distLock' = ReleaseWrite(distLock)
    /\ UNCHANGED <<universe, builder, recency, descriptions, descLock, wr,
                   hist, prev, budget>>

\* After the loop: self.distributions.read()
AcquireDistributionsRead(s) ==
    /\ sc[s].pc = "loop"
    /\ sc[s].pending = {}
    /\ CanRead(distLock)
    /\ distLock' = [distLock EXCEPT !.readers = @ \cup {s}]
    /\ sc' = [sc EXCEPT ![s].pc = "clone"]
    /\ UNCHANGED <<universe, builder, registry, recency, distributions,
                   descriptions, descLock, wr, hist, prev, budget>>

\* .clone(), and the read guard is dropped: the Snapshot is complete.
CloneDistributions(s) ==
    /\ sc[s].pc = "clone"
    /\ sc' = [sc EXCEPT ![s].snap = distributions, ![s].pc = "describe"]
    /\ distLock' = [distLock EXCEPT !.readers = @ \ {s}]
    /\ UNCHANGED <<universe, builder, registry, recency, distributions,
                   descriptions, descLock, wr, hist, prev, budget>>

\* Inner::render: let descriptions = self.descriptions.read()
AcquireDescriptionsRead(s) ==
    /\ sc[s].pc = "describe"
    /\ CanRead(descLock)
    /\ descLock' = [descLock EXCEPT !.readers = @ \cup {s}]
    /\ sc' = [sc EXCEPT ![s].pc = "write"]
    /\ UNCHANGED <<universe, builder, registry, recency, distributions,
                   distLock, descriptions, wr, hist, prev, budget>>

\* The history after a render() returned: for every counter series the
\* scrape met, the value it reported, or -1 when it omitted the series as
\* stale.
Noted(scraper) ==
    [k \in DOMAIN hist |->
        IF k.kind = COUNTER /\ k \in scraper.stale
        THEN [hist[k] EXCEPT !.seen = Append(@, -1)]
        ELSE IF k.kind = COUNTER /\ k \in scraper.fresh
        THEN [hist[k] EXCEPT !.seen =
                 Append(@, scraper.counters[key_to_parts(k).name][key_to_parts(k).labels])]
        ELSE hist[k]]

\* The three drain loops write the output; render() returns it and the read
\* guard is dropped.
WriteOutput(s) ==
    /\ sc[s].pc = "write"
    /\ LET out == RenderSnapshot(descriptions, sc[s].counters, sc[s].gauges,
                                 sc[s].snap)
       IN  /\ sc' = [sc EXCEPT ![s].out = out, ![s].pc = "done",
                                 ![s].metrics = EmptyMap,
                                 ![s].counters = EmptyMap,
                                 ![s].gauges = EmptyMap,
                                 ![s].snap = EmptyMap]
           /\ prev' = IF sc[s].quiet THEN [valid |-> TRUE, out |-> out] ELSE NoOutput
    /\ hist' = Noted(sc[s])
    /\ descLock' = [descLock EXCEPT !.readers = @ \ {s}]
    /\ UNCHANGED <<universe, builder, registry, recency, distributions,
                   distLock, descriptions, wr, budget>>

(***************************************************************************)
(* The specification: an application that uses three series, one of each   *)
(* kind, from two recorder threads and two scraping threads.               *)
(***************************************************************************)
CounterKey == MkKey(COUNTER, NameDotted, LabelsGet)
GaugeKey == MkKey(GAUGE, NameGauge, NoLabels)
HistogramKey == MkKey(HISTOGRAM, NameHist, LabelsGet)

MainKeys == {CounterKey, GaugeKey, HistogramKey}

\* Every histogram name of the keys has a configuration: the quantiles for
\* the summary name, the buckets for every other name.
BuilderFor(keys) ==
    [name \in {key_to_parts(k).name : k \in {x \in keys : x.kind = HISTOGRAM}}
        |-> IF name = NameSummary THEN SummaryConfig ELSE HistogramConfig]

InitWith(keys, writers, scrapers, calls, renders, expire) ==
    /\ universe = keys
    /\ builder = BuilderFor(keys)
    /\ registry = EmptyMap
    /\ recency = EmptyMap
    /\ distributions = EmptyMap
    /\ distLock = Unlocked
    /\ descriptions = EmptyMap
    /\ descLock = Unlocked
    /\ wr = [t \in Writers |-> IdleWriter]
    /\ sc = [s \in Scrapers |-> IdleScraper]
    /\ hist = EmptyMap
    /\ prev = NoOutput
    /\ budget = [writers |-> writers, scrapers |-> scrapers, calls |-> calls,
                 renders |-> renders, expire |-> expire]

Init == InitWith(MainKeys, {1}, {11}, MaxCalls, MaxRenders, MaxExpire)

\* The steps of a render() call on the counters and gauges and after the loop.
ScrapeSteps(s) ==
    \/ render(s)
    \/ AcquireDistributionsRead(s)
    \/ CloneDistributions(s)
    \/ AcquireDescriptionsRead(s)
    \/ WriteOutput(s)

\* The steps of Registry::op.
RegistrySteps(t) ==
    \/ RegistryGetOrCreate(t)
    \/ RegistryApply(t)

Next ==
    \/ \E t \in Writers, k \in universe : increment_counter(t, k, 1)
    \/ \E t \in Writers, k \in universe, v \in GaugeValues : update_gauge(t, k, v)
    \/ \E t \in Writers, k \in universe, v \in Samples : record_histogram(t, k, v)
    \/ \E t \in Writers : RegistrySteps(t)
    \/ \E keys \in SUBSET universe : IdleTimeout(keys)
    \/ \E s \in Scrapers : ScrapeSteps(s)
    \/ \E s \in Scrapers, k \in universe : VisitCounter(s, k)
    \/ \E s \in Scrapers, k \in universe : VisitGauge(s, k)
    \/ \E s \in Scrapers, k \in universe : VisitHistogram(s, k)
    \/ \E s \in Scrapers : AcquireDistributionsWrite(s)
    \/ \E s \in Scrapers : DrainHistogram(s)

Spec == Init /\ [][Next]_vars

(***************************************************************************)
(* One counter series used by two racing recorder threads.                 *)
(***************************************************************************)
InitCounter == InitWith({CounterKey}, Writers, {11}, MaxCalls, MaxRenders, MaxExpire)

NextCounter ==
    \/ \E t \in Writers, k \in universe : register_counter(t, k, <<>>)
    \/ \E t \in Writers, k \in universe, v \in Deltas : increment_counter(t, k, v)
    \/ \E t \in Writers : RegistrySteps(t)
    \/ \E keys \in SUBSET universe : IdleTimeout(keys)
    \/ \E s \in Scrapers : ScrapeSteps(s)
    \/ \E s \in Scrapers, k \in universe : VisitCounter(s, k)

SpecCounter == InitCounter /\ [][NextCounter]_vars

(***************************************************************************)
(* One gauge series used by two racing recorder threads.                   *)
(***************************************************************************)
InitGauge == InitWith({GaugeKey}, Writers, {11}, MaxCalls, MaxRenders, MaxExpire)

NextGauge ==
    \/ \E t \in Writers, k \in universe : register_gauge(t, k, <<>>)
    \/ \E t \in Writers, k \in universe, v \in GaugeValues : update_gauge(t, k, v)
    \/ \E t \in Writers : RegistrySteps(t)
    \/ \E keys \in SUBSET universe : IdleTimeout(keys)
    \/ \E s \in Scrapers : ScrapeSteps(s)
    \/ \E s \in Scrapers, k \in universe : VisitGauge(s, k)

SpecGauge == InitGauge /\ [][NextGauge]_vars

(***************************************************************************)
(* One histogram series recorded by one thread and scraped by two.         *)
(***************************************************************************)
InitHistogram ==
    InitWith({HistogramKey}, {1}, Scrapers, MaxCalls, MaxRenders, MaxExpire)

NextHistogram ==
    \/ \E t \in Writers, k \in universe : register_histogram(t, k, <<>>)
    \/ \E t \in Writers, k \in universe, v \in Samples : record_histogram(t, k, v)
    \/ \E t \in Writers : RegistrySteps(t)
    \/ \E keys \in SUBSET universe : IdleTimeout(keys)
    \/ \E s \in Scrapers : ScrapeSteps(s)
    \/ \E s \in Scrapers, k \in universe : VisitHistogram(s, k)
    \/ \E s \in Scrapers : AcquireDistributionsWrite(s)
    \/ \E s \in Scrapers : DrainHistogram(s)

SpecHistogram == InitHistogram /\ [][NextHistogram]_vars

(***************************************************************************)
(* One histogram series recorded by one thread and scraped by one, with    *)
(* the idle timeout.                                                       *)
(***************************************************************************)
InitStale ==
    InitWith({HistogramKey}, {1}, {11}, MaxCalls, MaxRenders, MaxExpire)

SpecStale == InitStale /\ [][NextHistogram]_vars

(***************************************************************************)
(* Registrations with descriptions, racing on the descriptions table.      *)
(***************************************************************************)
DescribedKeys == {CounterKey, MkKey(GAUGE, NameDotted, NoLabels),
                  MkKey(HISTOGRAM, NameBare, NoLabels)}

InitDescribe == InitWith(DescribedKeys, Writers, {11}, MaxCalls, 1, 0)

NextDescribe ==
    \/ \E t \in Writers, k \in universe, d \in DescriptionOptions :
           register_counter(t, k, d)
    \/ \E t \in Writers, k \in universe, d \in DescriptionOptions :
           register_gauge(t, k, d)
    \/ \E t \in Writers, k \in universe, d \in DescriptionOptions :
           register_histogram(t, k, d)
    \/ \E t \in Writers : AcquireDescriptionsWrite(t)
    \/ \E t \in Writers : add_description_if_missing(t)
    \/ \E t \in Writers : RegistrySteps(t)
    \/ \E s \in Scrapers : ScrapeSteps(s)
    \/ \E s \in Scrapers, k \in universe : VisitCounter(s, k)
    \/ \E s \in Scrapers, k \in universe : VisitGauge(s, k)
    \/ \E s \in Scrapers, k \in universe : VisitHistogram(s, k)
    \/ \E s \in Scrapers : AcquireDistributionsWrite(s)
    \/ \E s \in Scrapers : DrainHistogram(s)

SpecDescribe == InitDescribe /\ [][NextDescribe]_vars

(***************************************************************************)
(* First uses racing: three series, one of each kind, and two recorder     *)
(* threads; no scrape.                                                     *)
(***************************************************************************)
InitRace == InitWith(MainKeys, Writers, {}, MaxCalls, 0, 0)

NextRace ==
    \/ \E t \in Writers, k \in universe : register_counter(t, k, <<>>)
    \/ \E t \in Writers, k \in universe : register_gauge(t, k, <<>>)
    \/ \E t \in Writers, k \in universe : register_histogram(t, k, <<>>)
    \/ \E t \in Writers, k \in universe, v \in Deltas : increment_counter(t, k, v)
    \/ \E t \in Writers, k \in universe, v \in GaugeValues : update_gauge(t, k, v)
    \/ \E t \in Writers, k \in universe, v \in Samples : record_histogram(t, k, v)
    \/ \E t \in Writers : RegistrySteps(t)

SpecRace == InitRace /\ [][NextRace]_vars

(***************************************************************************)
(* Two histogram series, one of a name the builder has no configuration    *)
(* for, recorded by one thread and scraped by one.                         *)
(***************************************************************************)
UnconfiguredKey == MkKey(HISTOGRAM, NameBare, NoLabels)

InitUnconfigured ==
    /\ universe = {HistogramKey, UnconfiguredKey}
    /\ builder = BuilderFor({HistogramKey})
    /\ registry = EmptyMap
    /\ recency = EmptyMap
    /\ distributions = EmptyMap
    /\ distLock = Unlocked
    /\ descriptions = EmptyMap
    /\ descLock = Unlocked
    /\ wr = [t \in Writers |-> IdleWriter]
    /\ sc = [s \in Scrapers |-> IdleScraper]
    /\ hist = EmptyMap
    /\ prev = NoOutput
    /\ budget = [writers |-> {1}, scrapers |-> {11}, calls |-> MaxCalls,
                 renders |-> MaxRenders, expire |-> 0]

NextUnconfigured ==
    \/ \E t \in Writers, k \in universe, v \in Samples : record_histogram(t, k, v)
    \/ \E t \in Writers : RegistrySteps(t)
    \/ \E s \in Scrapers : ScrapeSteps(s)
    \/ \E s \in Scrapers, k \in universe : VisitHistogram(s, k)
    \/ \E s \in Scrapers : AcquireDistributionsWrite(s)
    \/ \E s \in Scrapers : DrainHistogram(s)

SpecUnconfigured == InitUnconfigured /\ [][NextUnconfigured]_vars

(***************************************************************************)
(* Both locks in use: registrations with a description and updates of a    *)
(* counter, a gauge and a histogram series from two recorder threads,      *)
(* scrapes from two threads, the threads scheduled fairly.                 *)
(***************************************************************************)
InitLocks == InitWith(MainKeys, Writers, Scrapers, MaxLockCalls, MaxRenders, 0)

\* The steps of a Recorder call after it was entered.
RecorderSteps(t) ==
    \/ AcquireDescriptionsWrite(t)
    \/ add_description_if_missing(t)
    \/ RegistrySteps(t)

\* The steps of a render() call after it was entered.
RenderSteps(s) ==
    \/ \E k \in universe : VisitCounter(s, k)
    \/ \E k \in universe : VisitGauge(s, k)
    \/ \E k \in universe : VisitHistogram(s, k)
    \/ AcquireDistributionsWrite(s)
    \/ DrainHistogram(s)
    \/ AcquireDistributionsRead(s)
    \/ CloneDistributions(s)
    \/ AcquireDescriptionsRead(s)
    \/ WriteOutput(s)

\* A step of some thread that is inside a call.
ThreadSteps ==
    \/ \E t \in Writers : RecorderSteps(t)
    \/ \E s \in Scrapers : RenderSteps(s)

NextLocks ==
    \/ \E t \in Writers, k \in universe : register_counter(t, k, <<"A">>)
    \/ \E t \in Writers, k \in universe : register_gauge(t, k, <<"A">>)
    \/ \E t \in Writers, k \in universe : register_histogram(t, k, <<"A">>)
    \/ \E t \in Writers, k \in universe : increment_counter(t, k, 1)
    \/ \E t \in Writers, k \in universe : update_gauge(t, k, 5)
    \/ \E t \in Writers, k \in universe : record_histogram(t, k, 5)
    \/ \E s \in Scrapers : render(s)
    \/ ThreadSteps

\* The scheduler keeps running threads: while some thread inside a call can
\* take a step, some thread does.
FairLocks ==
    /\ InitLocks
    /\ [][NextLocks]_vars
    /\ WF_vars(ThreadSteps)

(***************************************************************************)
(* Registrations, with and without a description, among updates of the     *)
(* same series, from two recorder threads; no scrape.                      *)
(***************************************************************************)
InitRegister == InitWith(MainKeys, Writers, {}, MaxCalls, 0, 0)

NextRegister ==
    \/ \E t \in Writers, k \in universe, d \in DescriptionOptions :
           register_counter(t, k, d)
    \/ \E t \in Writers, k \in universe, d \in DescriptionOptions :
           register_gauge(t, k, d)
    \/ \E t \in Writers, k \in universe, d \in DescriptionOptions :
           register_histogram(t, k, d)
    \/ \E t \in Writers, k \in universe : increment_counter(t, k, 1)
    \/ \E t \in Writers, k \in universe : update_gauge(t, k, 5)
    \/ \E t \in Writers, k \in universe : record_histogram(t, k, 5)
    \/ \E t \in Writers : RecorderSteps(t)

SpecRegister == InitRegister /\ [][NextRegister]_vars

(***************************************************************************)
(* Label values: two gauge series of one name, each with two labels, whose *)
(* values are any two strings of backslashes, double quotes, newlines and  *)
(* the letter n, updated by one thread and scraped by one.                 *)
(***************************************************************************)
EscapeAlphabet == {"\\", "\"", "\n", "n"}

LabelValues == UNION {[1..n -> EscapeAlphabet] : n \in 0..MaxLabelLen}

LabelledKey(v, w) == MkKey(GAUGE, NameGauge, << << <<"m">>, v >>, << <<"k">>, w >> >>)

InitEscape ==
    \E v, w \in LabelValues :
        InitWith({LabelledKey(v, w), LabelledKey(w, v)}, {1}, {11}, MaxCalls, 1, 0)

NextEscape ==
    \/ \E t \in Writers, k \in universe : update_gauge(t, k, 5)
    \/ \E t \in Writers : RegistrySteps(t)
    \/ \E s \in Scrapers : ScrapeSteps(s)
    \/ \E s \in Scrapers, k \in universe : VisitGauge(s, k)

SpecEscape == InitEscape /\ [][NextEscape]_vars

(***************************************************************************)
(* Names with two label-sets: a counter name, a histogram name and a       *)
(* summary name, each used with a label and without, by one thread, and    *)
(* scraped by one.                                                         *)
(***************************************************************************)
CounterKeyNoLabels == MkKey(COUNTER, NameDotted, NoLabels)
HistogramKeyNoLabels == MkKey(HISTOGRAM, NameHist, NoLabels)

SummaryKey == MkKey(HISTOGRAM, NameSummary, LabelsGet)
SummaryKeyNoLabels == MkKey(HISTOGRAM, NameSummary, NoLabels)

FamilyKeys ==
    {CounterKey, CounterKeyNoLabels, HistogramKey, HistogramKeyNoLabels,
     SummaryKey, SummaryKeyNoLabels}

InitFamily == InitWith(FamilyKeys, {1}, {11}, MaxCalls, 1, 0)

NextFamily ==
    \/ \E t \in Writers, k \in universe : increment_counter(t, k, 1)
    \/ \E t \in Writers, k \in universe, v \in Samples : record_histogram(t, k, v)
    \/ \E t \in Writers : RegistrySteps(t)
    \/ \E s \in Scrapers : ScrapeSteps(s)
    \/ \E s \in Scrapers, k \in universe : VisitCounter(s, k)
    \/ \E s \in Scrapers, k \in universe : VisitHistogram(s, k)
    \/ \E s \in Scrapers : AcquireDistributionsWrite(s)
    \/ \E s \in Scrapers : DrainHistogram(s)

SpecFamily == InitFamily /\ [][NextFamily]_vars

(***************************************************************************)
(* Names that differ only in a sanitised character: two counter series     *)
(* a.b and a_b with the same labels and two such gauge series, updated by  *)
(* one thread and scraped by one.                                          *)
(***************************************************************************)
CounterKeyPlain == MkKey(COUNTER, NamePlain, LabelsGet)
GaugeKeyDotted == MkKey(GAUGE, NameDotted, NoLabels)
GaugeKeyPlain == MkKey(GAUGE, NamePlain, NoLabels)

InitCollide ==
    InitWith({CounterKey, CounterKeyPlain, GaugeKeyDotted, GaugeKeyPlain},
             {1}, {11}, MaxCalls, 1, 0)

NextCollide ==
    \/ \E t \in Writers, k \in universe, v \in Deltas : increment_counter(t, k, v)
    \/ \E t \in Writers, k \in universe, v \in GaugeValues : update_gauge(t, k, v)
    \/ \E t \in Writers : RegistrySteps(t)
    \/ \E s \in Scrapers : ScrapeSteps(s)
    \/ \E s \in Scrapers, k \in universe : VisitCounter(s, k)
    \/ \E s \in Scrapers, k \in universe : VisitGauge(s, k)

SpecCollide == InitCollide /\ [][NextCollide]_vars

(***************************************************************************)
(* One counter series over three scrapes: registered and incremented by    *)
(* one thread, scraped by one, with the idle timeout in between.           *)
(***************************************************************************)
InitMonotone ==
    InitWith({CounterKey}, {1}, {11}, MaxCalls, MaxRenders + 1, MaxExpire)

NextMonotone ==
    \/ \E t \in Writers, k \in universe : register_counter(t, k, <<>>)
    \/ \E t \in Writers, k \in universe, v \in Deltas : increment_counter(t, k, v)
    \/ \E t \in Writers : RegistrySteps(t)
    \/ \E keys \in SUBSET universe : IdleTimeout(keys)
    \/ \E s \in Scrapers : ScrapeSteps(s)
    \/ \E s \in Scrapers, k \in universe : VisitCounter(s, k)

SpecMonotone == InitMonotone /\ [][NextMonotone]_vars

(***************************************************************************)
(* Reading a render() output.                                              *)
(***************************************************************************)
\* Every line of an output.
LinesOf(out) ==
    UNION {{b.head[i] : i \in 1..Len(b.head)} : b \in out}
    \cup UNION {UNION {{g[i] : i \in 1..Len(g)} : g \in b.groups} : b \in out}

\* The values an output reports on the metric lines of one series.
Reported(out, class, name, suffix, labels, extra) ==
    {g[i].value : <<b, g, i>> \in
        {<<b, g, i>> \in UNION {UNION {{<<b, g, i>> : i \in 1..Len(g)} :
                                           g \in b.groups} : b \in out} :
            /\ b.class = class
            /\ g[i].line = "METRIC"
            /\ g[i].name = name
            /\ g[i].suffix = suffix
            /\ g[i].labels = labels
            /\ g[i].extra = extra}}

\* The block is the block of this rendered name.
IsBlockOf(b, name) ==
    \/ \E i \in 1..Len(b.head) : b.head[i].name = name
    \/ \E g \in b.groups : g[1].name = name

\* The value an output reports for the counter or gauge series of key k.
ReportedFor(out, k) ==
    Reported(out, k.kind, key_to_parts(k).name, "", key_to_parts(k).labels, <<>>)

\* A render() that returned, with no Recorder call and no idle timeout
\* between its call and now, and none in flight when it was called.
Undisturbed(s) == sc[s].pc = "done" /\ sc[s].quiet

\* No call on key k is in flight.
NoCallOn(k) == \A t \in Writers : wr[t].key # k

(***************************************************************************)
(* C1: whatever the interleaving of the increment_counter calls on a key,  *)
(* racing creation included, a render() issued after all of them returned  *)
(* that finds the series fresh reports the sum of all the deltas, modulo   *)
(* the width of the counter cell.                                          *)
(***************************************************************************)
C1_CounterIsSumOfDeltas ==
    \A s \in Scrapers : \A k \in universe :
        (Undisturbed(s) /\ k.kind = COUNTER /\ k \in sc[s].fresh)
            => ReportedFor(sc[s].out, k) = {HistoryOf(k).incSum % CounterModulus}

\* Three increments whose sum wrapped around, then a render.
C1_Witness ==
    \E s \in Scrapers :
        /\ Undisturbed(s)
        /\ CounterKey \in sc[s].fresh
        /\ HistoryOf(CounterKey).incSum > CounterModulus
        /\ ReportedFor(sc[s].out, CounterKey)
               = {HistoryOf(CounterKey).incSum - CounterModulus}

(***************************************************************************)
(* C2: the Metric Store holds one handle per key: when calls race on the   *)
(* first use of a key the handle is created exactly once, and once the     *)
(* calls on the key have returned the handle holds the mutation of every   *)
(* one of them.                                                            *)
(***************************************************************************)
C2_OneHandlePerKey ==
    \A k \in universe :
        /\ HistoryOf(k).created <= 1
        /\ (k \in DOMAIN registry) <=> (HistoryOf(k).created = 1)
        /\ (k \in DOMAIN registry /\ NoCallOn(k)) =>
              /\ k.kind = COUNTER =>
                    registry[k].h.n = HistoryOf(k).incSum % CounterModulus
              /\ k.kind = GAUGE =>
                    /\ registry[k].h.n \in HistoryOf(k).gaugeSet \cup {0}
                    /\ HistoryOf(k).gaugeSet # {} => registry[k].h.n # 0
                    /\ ~HistoryOf(k).gaugeRaced =>
                          registry[k].h.n = HistoryOf(k).gaugeLast
              /\ k.kind = HISTOGRAM =>
                    /\ Len(registry[k].h.samples) = Len(HistoryOf(k).recorded)
                    /\ SumSeq(registry[k].h.samples) = SumSeq(HistoryOf(k).recorded)

\* Two calls raced on the first use of the histogram key (both were past
\* the get-or-create before either ran its closure) and both samples are in
\* the one handle.
C2_Witness ==
    /\ HistoryOf(HistogramKey).created = 1
    /\ NoCallOn(HistogramKey)
    /\ HistogramKey \in DOMAIN registry
    /\ registry[HistogramKey].h.samples = <<999, 5>>
    /\ HistoryOf(HistogramKey).recorded = <<5, 999>>

(***************************************************************************)
(* C3: update_gauge is last-writer-wins: a render() issued after the       *)
(* update_gauge calls on a key returned, none of which overlapped the last *)
(* one, reports the value of the last call; whatever the overlap, it       *)
(* reports the value of one of the calls (or the initial 0 of a gauge no   *)
(* call has written yet), never a sum.                                     *)
(***************************************************************************)
C3_GaugeLastWriterWins ==
    \A s \in Scrapers : \A k \in universe :
        (sc[s].pc = "done" /\ k.kind = GAUGE /\ k \in sc[s].fresh) =>
            /\ \E v \in HistoryOf(k).gaugeSet \cup {0} : ReportedFor(sc[s].out, k) = {v}
            /\ (sc[s].quiet /\ ~HistoryOf(k).gaugeRaced) =>
                  ReportedFor(sc[s].out, k) = {HistoryOf(k).gaugeLast}

\* Updates 5 then 3, one after the other, then a render that reports 3.
C3_Witness ==
    \E s \in Scrapers :
        /\ Undisturbed(s)
        /\ GaugeKey \in sc[s].fresh
        /\ HistoryOf(GaugeKey).gaugeSet = {3, 5}
        /\ ~HistoryOf(GaugeKey).gaugeRaced
        /\ HistoryOf(GaugeKey).gaugeLast = 3
        /\ ReportedFor(sc[s].out, GaugeKey) = {3}

(***************************************************************************)
(* C4: the Description Table is first-write-wins: a stored description is  *)
(* never changed by a later register call; the stored one is one of those  *)
(* the register calls on that name gave; and every HELP line of every      *)
(* output carries the description stored for its name, which a render()    *)
(* issued after the registrations shows whenever it has a block of that    *)
(* name.                                                                   *)
(***************************************************************************)
\* The descriptions the register calls begun so far gave for a name.
GivenFor(name) == UNION {HistoryOf(k).descs : k \in {x \in universe : x.name = name}}

C4_StoredDescriptions ==
    /\ \A name \in DOMAIN descriptions : descriptions[name] \in GivenFor(name)
    /\ \A s \in Scrapers : sc[s].pc = "done" =>
          /\ \A l \in LinesOf(sc[s].out) : l.line = "HELP" =>
                (l.name \in DOMAIN descriptions /\ l.text = descriptions[l.name])
          /\ sc[s].quiet =>
                \A b \in sc[s].out : \A name \in DOMAIN descriptions :
                    IsBlockOf(b, name)
                        => b.head[1] = write_help_line(name, descriptions[name])

C4_FirstWriteWins ==
    /\ []C4_StoredDescriptions
    /\ [][\A name \in DOMAIN descriptions :
              /\ name \in DOMAIN descriptions'
              /\ descriptions'[name] = descriptions[name]]_vars

\* Two register calls on one name, with descriptions "A" and "B", are in
\* flight at once and both are past add_description_if_missing; "B" was
\* stored, and a render() shows it.
C4_Witness ==
    \E s \in Scrapers : \E t, u \in Writers :
        /\ sc[s].pc = "done"
        /\ wr[t].pc \in {"op", "apply"} /\ wr[t].desc = <<"A">>
        /\ wr[u].pc \in {"op", "apply"} /\ wr[u].desc = <<"B">>
        /\ wr[t].key.name = NameBare /\ wr[u].key.name = NameBare
        /\ descriptions[NameBare] = "B"
        /\ write_help_line(NameBare, "B") \in LinesOf(sc[s].out)

(***************************************************************************)
(* C5: a counter or gauge series the recency filter called stale during a  *)
(* scrape has no line in that scrape's output (it is not reported as       *)
(* zero), while every Distribution that existed when render() was called   *)
(* is in the output, its histogram handle fresh or stale, recorded to in   *)
(* the interval or not.                                                    *)
(***************************************************************************)
\* The (name, labels) pairs of a distribution store.
PairsOf(store) == UNION {{<<name, labels>> : labels \in DOMAIN store[name]} :
                            name \in DOMAIN store}

C5_StaleOmittedDistributionsKept ==
    \A s \in Scrapers : sc[s].pc = "done" =>
        /\ \A k \in sc[s].stale :
              k.kind \in {COUNTER, GAUGE} => ReportedFor(sc[s].out, k) = {}
        /\ \A k \in sc[s].fresh :
              k.kind \in {COUNTER, GAUGE} => ReportedFor(sc[s].out, k) # {}
        /\ \A p \in PairsOf(sc[s].dists0) :
              /\ Reported(sc[s].out, "distribution", p[1], "count", p[2], <<>>) # {}
              /\ Reported(sc[s].out, "distribution", p[1], "sum", p[2], <<>>) # {}

\* One scrape skipped a stale counter whose cell holds 1 and a stale
\* histogram handle, and still reported the histogram's Distribution.
C5_Witness ==
    \E s \in Scrapers :
        /\ sc[s].pc = "done"
        /\ HistogramKey \in sc[s].stale
        /\ CounterKey \in sc[s].stale
        /\ registry[CounterKey].h.n = 1
        /\ ReportedFor(sc[s].out, CounterKey) = {}
        /\ PairsOf(sc[s].dists0) # {}
        /\ Reported(sc[s].out, "distribution", key_to_parts(HistogramKey).name,
                    "count", key_to_parts(HistogramKey).labels, <<>>) = {1}

(***************************************************************************)
(* C6: after any sequence of record_histogram calls on a series with       *)
(* render() calls in between, a render() issued after the calls returned   *)
(* that finds the series fresh reports, for each boundary, the number of   *)
(* all samples recorded so far that are <= the boundary, for +Inf their    *)
(* number, _sum their sum and _count their number: the Distribution        *)
(* accumulates over the scrapes.                                           *)
(***************************************************************************)
ReportedBucket(out, parts, le) ==
    Reported(out, "distribution", parts.name, "bucket", parts.labels, <<"le", le>>)

C6_HistogramAccumulates ==
    \A s \in Scrapers : \A k \in universe :
        (Undisturbed(s) /\ k.kind = HISTOGRAM /\ k \in sc[s].fresh) =>
            LET parts == key_to_parts(k)
                all == HistoryOf(k).recorded
                bounds == builder[parts.name].bounds
            IN  /\ \A i \in 1..Len(bounds) :
                       ReportedBucket(sc[s].out, parts, ToString(bounds[i]))
                           = {CountLe(all, bounds[i])}
                /\ ReportedBucket(sc[s].out, parts, "+Inf") = {Len(all)}
                /\ Reported(sc[s].out, "distribution", parts.name, "sum",
                            parts.labels, <<>>) = {SumSeq(all)}
                /\ Reported(sc[s].out, "distribution", parts.name, "count",
                            parts.labels, <<>>) = {Len(all)}

\* Samples 5, 20 and 999: an earlier scrape drained two of them, and the
\* last render reports buckets 1, 2, 2, 3, sum 1024 and count 3.
C6_Witness ==
    \E s \in Scrapers :
        LET parts == key_to_parts(HistogramKey)
        IN  /\ Undisturbed(s)
            /\ HistogramKey \in sc[s].fresh
            /\ HistoryOf(HistogramKey).recorded = <<5, 20, 999>>
            /\ parts.name \in DOMAIN sc[s].dists0
            /\ parts.labels \in DOMAIN sc[s].dists0[parts.name]
            /\ sc[s].dists0[parts.name][parts.labels].count = 2
            /\ ReportedBucket(sc[s].out, parts, "10") = {1}
            /\ ReportedBucket(sc[s].out, parts, "50") = {2}
            /\ ReportedBucket(sc[s].out, parts, "100") = {2}
            /\ ReportedBucket(sc[s].out, parts, "+Inf") = {3}
            /\ Reported(sc[s].out, "distribution", parts.name, "sum",
                        parts.labels, <<>>) = {1024}

(***************************************************************************)
(* C7: whatever the interleaving of record_histogram calls and render()    *)
(* calls, every recorded sample is counted once: it is still to be         *)
(* appended by its call, or in the handle's buffer, or in the Distribution *)
(* of its (name, label-set); none is lost and none is counted twice.       *)
(***************************************************************************)
\* The samples of the record_histogram calls on key k that have not yet
\* appended theirs.
PendingSamples(k) ==
    LET one(t) == IF wr[t].op = "record" /\ wr[t].key = k
                  THEN <<wr[t].value>> ELSE <<>>
    IN  one(1) \o one(2)

\* The Distribution of key k in the store; an empty one when it has none.
DistributionOf(k) ==
    LET parts == key_to_parts(k)
    IN  IF parts.name \in DOMAIN distributions
           /\ parts.labels \in DOMAIN distributions[parts.name]
        THEN distributions[parts.name][parts.labels]
        ELSE get_distribution(parts.name)[1]

BufferOf(k) == IF k \in DOMAIN registry THEN registry[k].h.samples ELSE <<>>

C7_EverySampleOnce ==
    \A k \in universe : k.kind = HISTOGRAM =>
        LET d == DistributionOf(k)
            held == BufferOf(k) \o PendingSamples(k)
            all == HistoryOf(k).recorded
        IN  /\ d.count + Len(held) = Len(all)
            /\ d.sum + SumSeq(held) = SumSeq(all)
            /\ \A i \in 1..Len(d.bounds) :
                   d.counts[i] + CountLe(held, d.bounds[i]) = CountLe(all, d.bounds[i])

\* Two scrapes at once: one has drained a sample into the Distribution and
\* has not returned yet, the other holds the write lock and is about to
\* drain a non-empty buffer, and a record_histogram call is in flight.
C7_Witness ==
    \E s, u \in Scrapers :
        /\ s # u
        /\ sc[s].pc = "drain"
        /\ sc[s].cur = HistogramKey
        /\ sc[u].pc \in {"loop", "clone", "describe", "write"}
        /\ HistogramKey \in sc[u].fresh
        /\ DistributionOf(HistogramKey).count >= 1
        /\ Len(BufferOf(HistogramKey)) >= 1
        /\ PendingSamples(HistogramKey) # <<>>

(***************************************************************************)
(* C8: in every render() output, for every histogram series, the _count    *)
(* line carries the value of the le="+Inf" bucket line, and no bucket of a *)
(* finite boundary carries more.                                           *)
(***************************************************************************)
C8_CountIsInfBucket ==
    \A s \in Scrapers : sc[s].pc = "done" =>
        \A b \in sc[s].out : b.class = "distribution" =>
            \A g \in b.groups :
                /\ \E i, j \in 1..Len(g) :
                       /\ g[i].suffix = "count"
                       /\ g[j].suffix = "bucket" /\ g[j].extra = <<"le", "+Inf">>
                /\ \A i, j \in 1..Len(g) :
                       (g[i].suffix = "count" /\ g[j].suffix = "bucket") =>
                           IF g[j].extra = <<"le", "+Inf">>
                           THEN g[j].value = g[i].value
                           ELSE g[j].value <= g[i].value

\* An output with a histogram of three samples, one of them above every
\* boundary.
C8_Witness ==
    \E s \in Scrapers :
        /\ sc[s].pc = "done"
        /\ ReportedBucket(sc[s].out, key_to_parts(HistogramKey), "+Inf") = {3}
        /\ ReportedBucket(sc[s].out, key_to_parts(HistogramKey), "100") = {2}
        /\ Reported(sc[s].out, "distribution", key_to_parts(HistogramKey).name,
                    "count", key_to_parts(HistogramKey).labels, <<>>) = {3}

(***************************************************************************)
(* C9: a metric registered with a description under a name with one of the *)
(* characters . = { } + - is rendered with each such character replaced by *)
(* _ in all of its lines: the HELP line carrying its description, the TYPE *)
(* line and every sample line.                                             *)
(***************************************************************************)
HasSanitized(name) == \E i \in 1..Len(name) : sanitize(name[i])

C9_SanitizedInAllLines ==
    \A s \in Scrapers : \A k \in universe :
        (Undisturbed(s) /\ k \in sc[s].fresh /\ HistoryOf(k).descs # {}
         /\ HasSanitized(k.name)) =>
            LET name == key_to_parts(k).name
            IN  /\ \E l \in LinesOf(sc[s].out) :
                       l.line = "HELP" /\ l.name = name /\ l.text \in GivenFor(k.name)
                /\ \E l \in LinesOf(sc[s].out) : l.line = "TYPE" /\ l.name = name
                /\ \E l \in LinesOf(sc[s].out) : l.line = "METRIC" /\ l.name = name
                /\ \A l \in LinesOf(sc[s].out) : ~HasSanitized(l.name)

(***************************************************************************)
(* C10: two consecutive render() calls with no Recorder operation and no   *)
(* idle timeout from the call of the first to the return of the second     *)
(* give the same output: the same counter and gauge lines and the same     *)
(* distribution lines.                                                     *)
(***************************************************************************)
C10_RenderTwiceSame ==
    \A s \in Scrapers :
        (Undisturbed(s) /\ sc[s].base.valid) => sc[s].out = sc[s].base.out

\* The second of two undisturbed renders; the first drained a sample, and
\* both report it, a counter and a gauge.
C10_Witness ==
    \E s \in Scrapers :
        /\ Undisturbed(s)
        /\ sc[s].base.valid
        /\ budget.renders = 0
        /\ BufferOf(HistogramKey) = <<>>
        /\ Reported(sc[s].base.out, "distribution", key_to_parts(HistogramKey).name,
                    "count", key_to_parts(HistogramKey).labels, <<>>) = {1}
        /\ ReportedFor(sc[s].out, CounterKey) = {1}
        /\ ReportedFor(sc[s].out, GaugeKey) # {}

(***************************************************************************)
(* C11: a scrape that meets a fresh histogram handle whose (name,          *)
(* label-set) has no Distribution and whose name has no distribution       *)
(* configuration ends in a panic; render() returns no output then, and     *)
(* every output that is returned has the lines of every histogram series   *)
(* the scrape found fresh.                                                 *)
(***************************************************************************)
\* The store holds a Distribution for the (name, label-set) of key k.
HasDistribution(store, k) ==
    /\ key_to_parts(k).name \in DOMAIN store
    /\ key_to_parts(k).labels \in DOMAIN store[key_to_parts(k).name]

\* Key k has no Distribution yet and its name resolves to no configuration.
Unresolvable(k) ==
    /\ k.kind = HISTOGRAM
    /\ ~HasDistribution(distributions, k)
    /\ get_distribution(key_to_parts(k).name) = <<>>

C11_NoSilentDrop ==
    \A s \in Scrapers :
        /\ sc[s].pc = "panicked" => sc[s].out = {}
        /\ sc[s].pc = "done" =>
              \A k \in sc[s].fresh : k.kind = HISTOGRAM =>
                  Reported(sc[s].out, "distribution", key_to_parts(k).name,
                           "count", key_to_parts(k).labels, <<>>) # {}

C11_UnconfiguredIsFatal ==
    /\ []C11_NoSilentDrop
    /\ [][\A s \in Scrapers :
              (sc[s].pc = "drain" /\ Unresolvable(sc[s].cur))
                  => sc'[s].pc \in {"drain", "panicked"}]_vars

\* A render() panicked on the unconfigured series, whose handle holds a
\* recorded sample.
C11_Witness ==
    \E s \in Scrapers :
        /\ sc[s].pc = "panicked"
        /\ UnconfiguredKey \in sc[s].fresh
        /\ Unresolvable(UnconfiguredKey)
        /\ BufferOf(UnconfiguredKey) # <<>>

(***************************************************************************)
(* C12: with every thread scheduled fairly, every render() call returns    *)
(* and every Recorder call returns; no thread holds one of the two locks   *)
(* while it waits for a lock, and every lock that is taken is released.    *)
(***************************************************************************)
HoldsLock(lock, id) == lock.writer = id \/ id \in lock.readers

C12_NoHoldAndWait ==
    /\ \A s \in Scrapers :
          /\ HoldsLock(distLock, s) => sc[s].pc \in {"drain", "clone"}
          /\ sc[s].pc = "locking" => ~HoldsLock(distLock, s)
          /\ HoldsLock(descLock, s) => sc[s].pc = "write"
    /\ \A t \in Writers :
          /\ ~HoldsLock(distLock, t)
          /\ HoldsLock(descLock, t) => wr[t].pc = "describing"
    /\ distLock.writer # 0 => distLock.readers = {}
    /\ descLock.writer # 0 => descLock.readers = {}

\* Every call that was entered has returned and both locks are free.
AllReturned ==
    /\ \A s \in Scrapers : sc[s].pc \in {"idle", "done"}
    /\ \A t \in Writers : wr[t].pc = "idle"
    /\ distLock = Unlocked
    /\ descLock = Unlocked

\* The calls of a behaviour are finitely many, so that every call returns
\* and every lock is released means: from some point on all have.
C12_RenderCompletes ==
    /\ []C12_NoHoldAndWait
    /\ <>[]AllReturned

\* Both locks are contended at once: one render() waits for the
\* descriptions lock a register call holds, while the other render() holds
\* the distributions lock for writing and a second Recorder call is inside
\* the registry.
C12_Witness ==
    \E s, u \in Scrapers : \E t, v \in Writers :
        /\ sc[s].pc = "describe"
        /\ descLock.writer = t
        /\ sc[u].pc = "drain"
        /\ distLock.writer = u
        /\ wr[v].pc = "apply"

(***************************************************************************)
(* C13: every step of a register_* call leaves the value of an existing    *)
(* handle of its key as it is, and every other handle; the call leaves the *)
(* Description Table as it is when it has no description or when the name  *)
(* already has one; when the call returns the key has a handle of its      *)
(* kind, the initial one when the call created it.  So a second register   *)
(* call changes no handle, no value and no description.                    *)
(***************************************************************************)
C13_RegisterStep(t) ==
    LET k == wr[t].key
    IN  /\ \A j \in DOMAIN registry :
               j \in DOMAIN registry' /\ registry'[j].h = registry[j].h
        /\ DOMAIN registry' \subseteq (DOMAIN registry) \cup {k}
        /\ k \in DOMAIN registry' /\ k \notin DOMAIN registry
               => registry'[k].h = NewHandle(k.kind)
        /\ wr'[t].pc = "idle" => k \in DOMAIN registry'
        /\ (wr[t].desc = <<>> \/ k.name \in DOMAIN descriptions)
               => descriptions' = descriptions
        /\ \A name \in DOMAIN descriptions :
               name \in DOMAIN descriptions' /\ descriptions'[name] = descriptions[name]

C13_RegisterIdempotent ==
    [][\A t \in Writers :
          (wr[t].op = "register" /\ wr'[t] # wr[t]) => C13_RegisterStep(t)]_vars

\* A counter was incremented and then registered twice, with descriptions
\* "A" and "B": its value is the increment and its description is "A".
C13_Witness ==
    /\ WritersIdle
    /\ CounterKey \in DOMAIN registry
    /\ registry[CounterKey].gen = 3
    /\ registry[CounterKey].h.n = 1
    /\ HistoryOf(CounterKey).descs = {"A", "B"}
    /\ HistoryOf(CounterKey).incSum = 1
    /\ descriptions[NameDotted] = "A"

(***************************************************************************)
(* C14: for every label value, the rendered label is the label key, =, and *)
(* between double quotes the value with each backslash, double quote and   *)
(* newline replaced by backslash-backslash, backslash-quote and            *)
(* backslash-n; the value can be read back from the rendered one, so       *)
(* distinct values are rendered differently; the labels of a line are in   *)
(* the order of the key's labels.                                          *)
(***************************************************************************)
\* What the escaping makes of one character.
EscapedChar(c) ==
    IF c = "\\" THEN <<"\\", "\\">>
    ELSE IF c = "\"" THEN <<"\\", "\"">>
    ELSE IF c = "\n" THEN <<"\\", "n">>
    ELSE <<c>>

RECURSIVE EscapedByChar(_)
EscapedByChar(v) ==
    IF v = <<>> THEN <<>> ELSE EscapedChar(Head(v)) \o EscapedByChar(Tail(v))

\* Reading an escaped value back: a backslash and the character after it
\* stand for one character.
RECURSIVE Unescaped(_)
Unescaped(e) ==
    IF e = <<>> THEN <<>>
    ELSE IF Head(e) = "\\" /\ Len(e) >= 2
         THEN <<(IF e[2] = "n" THEN "\n" ELSE e[2])>> \o Unescaped(Tail(Tail(e)))
         ELSE <<Head(e)>> \o Unescaped(Tail(e))

\* The label a line should carry for a (key, value) label of a Metric Key.
ExpectedLabel(label) ==
    label[1] \o <<"=", "\"">> \o EscapedByChar(label[2]) \o <<"\"">>

\* The rendered label without the key, the = and the two double quotes.
ValueOf(rendered, label) ==
    SubSeq(rendered, Len(label[1]) + 3, Len(rendered) - 1)

C14_LabelValuesEscaped ==
    \A s \in Scrapers : sc[s].pc = "done" =>
        /\ \A k \in sc[s].fresh :
              \E l \in LinesOf(sc[s].out) :
                  /\ l.line = "METRIC"
                  /\ Len(l.labels) = Len(k.labels)
                  /\ \A i \in 1..Len(k.labels) :
                         /\ l.labels[i] = ExpectedLabel(k.labels[i])
                         /\ Unescaped(ValueOf(l.labels[i], k.labels[i])) = k.labels[i][2]
        /\ \A k, j \in sc[s].fresh :
              k # j => key_to_parts(k).labels # key_to_parts(j).labels
        /\ Cardinality({l \in LinesOf(sc[s].out) : l.line = "METRIC"})
              = Cardinality(sc[s].fresh)

\* Two series in one output: the labels of one carry a backslash followed
\* by n and a newline, the labels of the other the same values the other
\* way round.
C14_Witness ==
    \E s \in Scrapers :
        /\ sc[s].pc = "done"
        /\ sc[s].fresh = {LabelledKey(<<"\\", "n">>, <<"\n">>),
                          LabelledKey(<<"\n">>, <<"\\", "n">>)}
        /\ \E l \in LinesOf(sc[s].out) :
               l.labels = << <<"m", "=", "\"", "\\", "\\", "n", "\"">>,
                             <<"k", "=", "\"", "\\", "n", "\"">> >>
        /\ \E l \in LinesOf(sc[s].out) :
               l.labels = << <<"m", "=", "\"", "\\", "n", "\"">>,
                             <<"k", "=", "\"", "\\", "\\", "n", "\"">> >>

(***************************************************************************)
(* C15: in every render() output every block has exactly one TYPE line,    *)
(* which carries the block's name and comes before every sample line of    *)
(* the block, in whatever order the label-sets of the block are written.   *)
(***************************************************************************)
\* The places of the TYPE lines of a block: in its head, and in its groups.
TypeLinesInHead(b) == {i \in 1..Len(b.head) : b.head[i].line = "TYPE"}

TypeLinesInGroups(b) ==
    {p \in UNION {{<<g, i>> : i \in 1..Len(g)} : g \in b.groups} :
        p[1][p[2]].line = "TYPE"}

\* A TYPE line that a group carries comes before every sample line only
\* when it is the first line of the only group.
C15_OneTypeLinePerBlock ==
    \A s \in Scrapers : sc[s].pc = "done" =>
        \A b \in sc[s].out :
            /\ Cardinality(TypeLinesInHead(b)) + Cardinality(TypeLinesInGroups(b)) = 1
            /\ \A i \in TypeLinesInHead(b) : IsBlockOf(b, b.head[i].name)
            /\ \A p \in TypeLinesInGroups(b) : p[2] = 1 /\ b.groups = {p[1]}

(***************************************************************************)
(* C16: two distinct keys of one kind in the Metric Store never have the   *)
(* same rendered name and labels, and a render() that ran with no call in  *)
(* flight reports for every counter and gauge series it found fresh the    *)
(* value of that series' own handle.                                       *)
(***************************************************************************)
C16_OwnEntryPerKey ==
    /\ \A k, j \in DOMAIN registry :
          (k # j /\ k.kind = j.kind) => key_to_parts(k) # key_to_parts(j)
    /\ \A s \in Scrapers : \A k \in sc[s].fresh :
          (Undisturbed(s) /\ k.kind \in {COUNTER, GAUGE})
              => ReportedFor(sc[s].out, k) = {registry[k].h.n}

(***************************************************************************)
(* C17: the values that the render() calls of one scraping thread report   *)
(* for a counter series, one call after the other, never decrease as long  *)
(* as the increments have not wrapped the cell around, whatever            *)
(* increment_counter and register_counter calls are made and whether or    *)
(* not a scrape in between omitted the series as stale.                    *)
(***************************************************************************)
C17_CounterNeverDecreases ==
    \A k \in DOMAIN hist :
        (k.kind = COUNTER /\ hist[k].incSum < CounterModulus) =>
            \A i, j \in 1..Len(hist[k].seen) :
                (i < j /\ hist[k].seen[i] # -1 /\ hist[k].seen[j] # -1)
                    => hist[k].seen[i] <= hist[k].seen[j]

\* Three scrapes: the first reported 1, the second omitted the series as
\* stale, the third, after another increment, reported 2.
C17_Witness ==
    /\ CounterKey \in DOMAIN hist
    /\ hist[CounterKey].seen = <<1, -1, 2>>
    /\ hist[CounterKey].incSum = 2

(***************************************************************************)
(* C18: a scrape holds the Distribution Store for writing only while it    *)
(* creates the Distribution of its series, and a scrape that is about to   *)
(* hand samples to a Distribution that exists is never kept waiting by     *)
(* another scrape's access to the store.                                   *)
(***************************************************************************)
\* The scrape found the histogram series of key k fresh, its Distribution
\* exists, and the scrape is about to access the store for it.
AtExisting(s, k) ==
    /\ sc[s].pc = "locking"
    /\ sc[s].cur = k
    /\ HasDistribution(distributions, k)

C18_ExclusiveOnlyToCreate ==
    \A s \in Scrapers :
        /\ distLock.writer = s => ~HasDistribution(distributions, sc[s].cur)
        /\ \A k \in universe : AtExisting(s, k) => CanWrite(distLock)

(***************************************************************************)
(* C19: the step of a scrape at a histogram handle the recency filter      *)
(* calls stale changes neither the handle's buffer nor the Distribution    *)
(* Store and takes no lock; and when the (name, label-set) had a           *)
(* Distribution when render() was called, the output of the scrape carries *)
(* its buckets, sum and count as they were.                                *)
(***************************************************************************)
C19_StaleRendered ==
    \A s \in Scrapers : \A k \in sc[s].stale :
        (sc[s].pc = "done" /\ k.kind = HISTOGRAM /\ HasDistribution(sc[s].dists0, k)) =>
            LET parts == key_to_parts(k)
                d == sc[s].dists0[parts.name][parts.labels]
            IN  /\ \A i \in 1..Len(d.bounds) :
                       ReportedBucket(sc[s].out, parts, ToString(d.bounds[i]))
                           = {d.counts[i]}
                /\ ReportedBucket(sc[s].out, parts, "+Inf") = {d.count}
                /\ Reported(sc[s].out, "distribution", parts.name, "sum",
                            parts.labels, <<>>) = {d.sum}
                /\ Reported(sc[s].out, "distribution", parts.name, "count",
                            parts.labels, <<>>) = {d.count}

C19_StaleHistogramUntouched ==
    /\ []C19_StaleRendered
    /\ [][\A s \in Scrapers : \A k \in universe :
              (k.kind = HISTOGRAM /\ k \in sc'[s].stale /\ k \notin sc[s].stale)
                  => /\ registry' = registry
                     /\ distributions' = distributions
                     /\ distLock' = distLock]_vars

\* A scrape omitted the stale histogram handle: the sample recorded after
\* the first scrape is still in the buffer, and the output carries the
\* Distribution of the first scrape's sample.
C19_Witness ==
    \E s \in Scrapers :
        /\ sc[s].pc = "done"
        /\ HistogramKey \in sc[s].stale
        /\ BufferOf(HistogramKey) # <<>>
        /\ HasDistribution(sc[s].dists0, HistogramKey)
        /\ DistributionOf(HistogramKey).count = 1
        /\ Reported(sc[s].out, "distribution", key_to_parts(HistogramKey).name,
                    "sum", key_to_parts(HistogramKey).labels, <<>>)
               = {DistributionOf(HistogramKey).sum}

(***************************************************************************)
(* C20: after a render() panicked on a histogram series whose name has no  *)
(* configuration, the Distribution Store has no entry for that name, not   *)
(* even an empty one, every sample recorded for the series is still in its *)
(* buffer or about to be appended, and the panicked thread does not hold   *)
(* the Distribution Store lock; no output has a distribution block without *)
(* a label-set.                                                            *)
(***************************************************************************)
C20_FailedScrapeLeavesNoTrace ==
    /\ \A s \in Scrapers : \A k \in sc[s].fresh :
          (sc[s].pc = "panicked" /\ Unresolvable(k)) =>
              /\ key_to_parts(k).name \notin DOMAIN distributions
              /\ Len(BufferOf(k)) + Len(PendingSamples(k))
                     = Len(HistoryOf(k).recorded)
              /\ ~HoldsLock(distLock, s)
    /\ \A s \in Scrapers : sc[s].pc = "done" =>
          \A b \in sc[s].out : b.class = "distribution" => b.groups # {}

====
